---------------------------- MODULE Spec2Model ----------------------------
(***************************************************************************)
(* A model of bidirpc's Session (src/session.go): the reader loop that     *)
(* demultiplexes frames to the two sub-channels, the serialized writer,    *)
(* the close lifecycle, and the role assignment of the two RPC codecs.     *)
(*                                                                         *)
(* Tasks of one Session:                                                   *)
(*   rl      the reader loop goroutine (Session.readLoop)                  *)
(*   closer  a task calling Session.Close, any number of times             *)
(*   caller  a task calling Session.Call, any number of times              *)
(*   input   the RPC client's reply loop, consumer of the client stream    *)
(*   server  the RPC server's serve loop, consumer of the server stream,   *)
(*           which answers each request with one write                     *)
(***************************************************************************)
EXTENDS Integers, Sequences, FiniteSets

\* ------------------------------------------------------------ bounds
\* Frames with a valid header the connection hands to the reader loop.
MaxFrames == 2
\* Largest body length a header declares.
MaxBodyLen == 1
\* Calls that reach Session.write (a call refused as shut down writes nothing).
MaxCallWrites == 1
\* Bodies a stream's inbound queue holds before the reader loop must wait.
InCCap == 1
\* Frames with a valid header the peer sends in the runs under fairness.
MaxFairFrames == 1

\* ------------------------------------------------- program constants
streamTypeYin == 1
streamTypeYang == 2
defaultBufferPoolSize == 16

\* The arguments NewSession is given: the role flag and bufferPoolSize.
Configs == {<<TRUE, 0>>, <<FALSE, 2>>, <<TRUE, -1>>}
\* Values of the tag byte of an incoming header.
TagBytes == 1..3
\* Session.write hands one slice to conn.Write, which may put it on the
\* wire in pieces: the header piece and the body piece.
Pieces == {1, 2}

Tasks == {"rl", "closer", "caller", "input", "server"}
Writers == {"caller", "server"}
Closers == {"rl", "closer", "caller", "server"}
StreamTypes == {streamTypeYin, streamTypeYang}
NoTask == "none"
NoFrame == [id |-> 0, tag |-> 0, len |-> 0, got |-> 0]
Consumers == {"input", "server"}

VARIABLES
    constructed,     \* NewSession has returned
    yinOrYang,       \* Session.yinOrYang
    bufferPoolSize,  \* the argument NewSession was given
    poolCap,         \* capacity of Session.bp
    pool,            \* buffers lying in Session.bp
    pc,              \* each task's position
    writeLock,       \* holder of Session.writeLock
    closeLock,       \* holder of Session.closeLock
    closed,          \* Session.closed
    closedC,         \* Session.closedC has been closed
    connClosed,      \* Session.conn.Close() has been called
    clientClosing,   \* rpc.Client.Close() has been called
    clientShutdown,  \* the rpc client's reply loop has ended
    nTeardown,       \* how often each teardown step has run
    connEOF,         \* the peer ended the stream
    rlCause,         \* why the reader loop called doClose
    cur,             \* the frame the reader loop is working on
    arrived,         \* tags of the valid headers read, in order
    inC,             \* the streams' inbound queues
    delivered,       \* ids enqueued on each stream, in order
    received,        \* bodies each consumer task took, in order
    wire,            \* pieces conn.Write put on the connection, in order
    wprog,           \* pieces of a writer's current slice already written
    callRes,         \* what the caller's last Call returned, if it has
    callAfterClose,  \* the caller's last Call was issued after a Close() returned
    closeResult      \* what the last Close() call returned, if one has

vars == <<constructed, yinOrYang, bufferPoolSize, poolCap, pool, pc, writeLock,
          closeLock, closed, closedC, connClosed, clientClosing, clientShutdown,
          nTeardown, connEOF, rlCause, cur, arrived, inC, delivered, received,
          wire, wprog, callRes, callAfterClose,
          closeResult>>

\* --------------------------------------------------- role assignment
\* The client codec bound to the yin stream whatever the flag.
ClientStreamYin(flag) == streamTypeYin

\* The stream NewSession binds the client codec to (lines 55-61).
ClientStream(flag) == IF flag THEN streamTypeYin ELSE streamTypeYang
\* The stream NewSession binds the server codec to (lines 55-61).
ServerStream(flag) == IF flag THEN streamTypeYang ELSE streamTypeYin
\* The codec a Session built with `flag` has bound to stream `tag`.
CodecOn(flag, tag) ==
    IF tag = ClientStream(flag) THEN "client"
    ELSE IF tag = ServerStream(flag) THEN "server" ELSE "nobody"
\* The stream a task reads from and writes to.
StreamOf(t) ==
    IF t \in {"caller", "input"} THEN ClientStream(yinOrYang)
    ELSE ServerStream(yinOrYang)
\* The codec a task works for.
RoleOf(t) == IF t \in {"caller", "input"} THEN "client" ELSE "server"

\* The capacity NewSession gives the buffer pool (lines 40-46).
PoolSize(n) == IF n = 0 THEN defaultBufferPoolSize ELSE n

\* The header test without the test of the length.
InvalidHeaderTagOnly(streamType, bodyLen) ==
    streamType # streamTypeYin /\ streamType # streamTypeYang

\* The header test of the reader loop (line 126).
InvalidHeader(streamType, bodyLen) ==
    (streamType # streamTypeYin /\ streamType # streamTypeYang) \/ bodyLen <= 0

\* bufferPool.Get: a pooled buffer if there is one, else a fresh one.
Get(n) == IF n > 0 THEN n - 1 ELSE n
\* bufferPool.Put: kept while capacity remains, else discarded.
Put(n, cap) == IF n < cap THEN n + 1 ELSE n

Init ==
    /\ constructed = FALSE
    /\ yinOrYang = FALSE
    /\ bufferPoolSize = 0
    /\ poolCap = 0
    /\ pool = 0
    /\ pc = [t \in Tasks |-> "new"]
    /\ writeLock = NoTask
    /\ closeLock = NoTask
    /\ closed = FALSE
    /\ closedC = FALSE
    /\ connClosed = FALSE
    /\ clientClosing = FALSE
    /\ clientShutdown = FALSE
    /\ nTeardown = [s \in {"closedC", "conn", "client"} |-> 0]
    /\ connEOF = FALSE
    /\ rlCause = "none"
    /\ cur = NoFrame
    /\ arrived = <<>>
    /\ inC = [g \in StreamTypes |-> <<>>]
    /\ delivered = [g \in StreamTypes |-> <<>>]
    /\ received = [t \in Consumers |-> <<>>]
    /\ wire = <<>>
    /\ wprog = [w \in Writers |-> 0]
    /\ callRes = "none"
    /\ callAfterClose = FALSE
    /\ closeResult = "none"

\* NewSession without the `go s.readLoop()`.
NewSessionNoReader(flag, n) ==
    /\ ~constructed
    /\ constructed' = TRUE
    /\ yinOrYang' = flag
    /\ bufferPoolSize' = n
    /\ poolCap' = PoolSize(n)
    /\ pc' = [t \in Tasks |->
                CASE PoolSize(n) < 0 -> "new"
                  [] t = "rl" -> "new"
                  [] t \in {"input", "server"} -> "recv"
                  [] OTHER -> "idle"]
    /\ UNCHANGED <<pool, writeLock, closeLock, closed, closedC, connClosed,
                   clientClosing, clientShutdown, nTeardown, connEOF, rlCause,
                   cur, arrived, inC, delivered, received, wire, wprog,
                   callRes, callAfterClose, closeResult>>

\* NewSession (lines 39-69): builds the pool, binds the codecs, starts the
\* serve loop and the reader loop, and returns. What a pool built with a
\* negative size does is not in the source at hand: such a Session is
\* followed no further than its construction.
NewSession(flag, n) ==
    /\ ~constructed
    /\ constructed' = TRUE
    /\ yinOrYang' = flag
    /\ bufferPoolSize' = n
    /\ poolCap' = PoolSize(n)
    /\ pc' = [t \in Tasks |->
                CASE PoolSize(n) < 0 -> "new"
                  [] t = "rl" -> "readHeader"
                  [] t \in {"input", "server"} -> "recv"
                  [] OTHER -> "idle"]
    /\ UNCHANGED <<pool, writeLock, closeLock, closed, closedC, connClosed,
                   clientClosing, clientShutdown, nTeardown, connEOF, rlCause,
                   cur, arrived, inC, delivered, received, wire, wprog,
                   callRes, callAfterClose, closeResult>>

ctorVars == <<constructed, yinOrYang, bufferPoolSize, poolCap>>
closeVars == <<closeLock, closed, closedC, connClosed, clientClosing, nTeardown>>
readVars == <<connEOF, rlCause, cur, arrived, inC, delivered, received, pool>>
frameVars == <<connEOF, rlCause, arrived, inC, delivered, received, pool>>
writeVars == <<writeLock, wire, wprog>>
callVars == <<callRes, callAfterClose, clientShutdown>>

\* ------------------------------------------------------ close lifecycle
\* Close (lines 105-106): calls doClose(nil).
Close ==
    /\ pc["closer"] = "idle"
    /\ pc' = [pc EXCEPT !["closer"] = "doClose"]
    /\ UNCHANGED <<ctorVars, closeVars, readVars, writeVars, callVars, closeResult>>

\* What a task does when its doClose returns. The reader loop breaks out of
\* its loop and ends, its locals with it (lines 122, 128, 138). Close returns nil (line 107). write runs
\* its deferred unlock and returns the error (lines 159, 165), on which the
\* rpc client fails the call whose request it could not write and Call
\* returns, and the rpc server goes back to serving.
doCloseReturn(t) ==
    /\ pc' = [pc EXCEPT ![t] =
                CASE t = "rl" -> "done"
                  [] t = "server" -> "recv"
                  [] OTHER -> "idle"]
    /\ closeResult' = IF t = "closer" THEN "nil" ELSE closeResult
    /\ writeLock' = IF t \in Writers /\ writeLock = t THEN NoTask ELSE writeLock
    /\ wprog' = IF t \in Writers THEN [wprog EXCEPT ![t] = 0] ELSE wprog
    /\ callRes' = IF t = "caller" /\ callRes = "none" THEN "error" ELSE callRes
    /\ cur' = IF t = "rl" THEN NoFrame ELSE cur

\* doClose without the test of the closed flag.
doCloseEnterNoFlag(t) ==
    /\ pc[t] = "doClose"
    /\ closeLock = NoTask
    /\ closeLock' = t
    /\ closed' = TRUE
    /\ pc' = [pc EXCEPT ![t] = "closeC"]
    /\ UNCHANGED <<closeResult, writeLock, wprog, callRes, cur>>
    /\ UNCHANGED <<ctorVars, closedC, connClosed, clientClosing, nTeardown,
                   frameVars, wire, callAfterClose, clientShutdown>>

\* doClose (lines 169-175): takes the close lock; when the Session is closed
\* already it returns (releasing the lock), else it sets the closed flag and
\* goes on, holding the lock.
doCloseEnter(t) ==
    /\ pc[t] = "doClose"
    /\ closeLock = NoTask
    /\ IF closed
       THEN /\ doCloseReturn(t)
            /\ UNCHANGED <<closeLock, closed>>
       ELSE /\ closeLock' = t
            /\ closed' = TRUE
            /\ pc' = [pc EXCEPT ![t] = "closeC"]
            /\ UNCHANGED <<closeResult, writeLock, wprog, callRes, cur>>
    /\ UNCHANGED <<ctorVars, closedC, connClosed, clientClosing, nTeardown,
                   frameVars, wire, callAfterClose, clientShutdown>>

\* doClose without the close of closedC.
doCloseSignalSkipped(t) ==
    /\ pc[t] = "closeC"
    /\ pc' = [pc EXCEPT ![t] = "closeConn"]
    /\ UNCHANGED <<ctorVars, closeVars, readVars, writeVars, callVars, closeResult>>

\* doClose (line 178): close(s.closedC).
doCloseSignal(t) ==
    /\ pc[t] = "closeC"
    /\ closedC' = TRUE
    /\ nTeardown' = [nTeardown EXCEPT !["closedC"] = @ + 1]
    /\ pc' = [pc EXCEPT ![t] = "closeConn"]
    /\ UNCHANGED <<ctorVars, closeLock, closed, connClosed, clientClosing,
                   readVars, writeVars, callVars, closeResult>>

\* doClose without the close of the connection.
doCloseConnSkipped(t) ==
    /\ pc[t] = "closeConn"
    /\ pc' = [pc EXCEPT ![t] = "closeClient"]
    /\ UNCHANGED <<ctorVars, closeVars, readVars, writeVars, callVars, closeResult>>

\* doClose (line 179): s.conn.Close().
doCloseConn(t) ==
    /\ pc[t] = "closeConn"
    /\ connClosed' = TRUE
    /\ nTeardown' = [nTeardown EXCEPT !["conn"] = @ + 1]
    /\ pc' = [pc EXCEPT ![t] = "closeClient"]
    /\ UNCHANGED <<ctorVars, closeLock, closed, closedC, clientClosing,
                   readVars, writeVars, callVars, closeResult>>

\* doClose without the close of the rpc client.
doCloseClientSkipped(t) ==
    /\ pc[t] = "closeClient"
    /\ closeLock' = NoTask
    /\ doCloseReturn(t)
    /\ UNCHANGED <<ctorVars, closed, closedC, connClosed, clientClosing,
                   nTeardown, frameVars, wire, callAfterClose, clientShutdown>>

\* doClose without the deferred release of the close lock.
doCloseClientKeepLock(t) ==
    /\ pc[t] = "closeClient"
    /\ clientClosing' = TRUE
    /\ nTeardown' = [nTeardown EXCEPT !["client"] = @ + 1]
    /\ doCloseReturn(t)
    /\ UNCHANGED <<ctorVars, closeLock, closed, closedC, connClosed, frameVars,
                   wire, callAfterClose, clientShutdown>>

\* doClose (lines 180, 170): s.client.Close(), which marks the rpc client
\* closing; the deferred release of the close lock; the return.
doCloseClient(t) ==
    /\ pc[t] = "closeClient"
    /\ clientClosing' = TRUE
    /\ nTeardown' = [nTeardown EXCEPT !["client"] = @ + 1]
    /\ closeLock' = NoTask
    /\ doCloseReturn(t)
    /\ UNCHANGED <<ctorVars, closed, closedC, connClosed, frameVars, wire,
                   callAfterClose, clientShutdown>>

\* ---------------------------------------------------------- reader loop
\* readLoop (lines 119, 125-129): a whole header arrives and is decoded into
\* streamType and bodyLen (kept in cur, with the number of the frame the
\* header would start). An invalid one closes the Session; a valid one
\* starts a frame.
readLoopHeader(streamType, bodyLen) ==
    /\ pc["rl"] = "readHeader"
    /\ ~connClosed /\ ~connEOF
    /\ IF InvalidHeader(streamType, bodyLen)
       THEN /\ rlCause' = "invalid"
            /\ pc' = [pc EXCEPT !["rl"] = "doClose"]
            /\ UNCHANGED arrived
       ELSE /\ arrived' = Append(arrived, streamType)
            /\ pc' = [pc EXCEPT !["rl"] = "readBody"]
            /\ UNCHANGED rlCause
    /\ cur' = [id |-> Len(arrived) + 1, tag |-> streamType, len |-> bodyLen,
               got |-> 0]
    /\ UNCHANGED <<ctorVars, closeVars, connEOF, inC, delivered, received, pool,
                   writeVars, callVars, closeResult>>

\* readLoop (lines 119-123): the connection fails under io.ReadFull.
readLoopHeaderError ==
    /\ pc["rl"] = "readHeader"
    /\ ~connClosed /\ ~connEOF
    /\ rlCause' = "header"
    /\ pc' = [pc EXCEPT !["rl"] = "doClose"]
    /\ UNCHANGED <<ctorVars, closeVars, connEOF, cur, arrived, inC, delivered,
                   received, pool, writeVars, callVars, closeResult>>

\* readLoop (lines 119-123): io.ReadFull on a connection that is closed or
\* at its end returns an error.
readLoopHeaderClosed ==
    /\ pc["rl"] = "readHeader"
    /\ connClosed \/ connEOF
    /\ rlCause' = "header"
    /\ pc' = [pc EXCEPT !["rl"] = "doClose"]
    /\ UNCHANGED <<ctorVars, closeVars, connEOF, cur, arrived, inC, delivered,
                   received, pool, writeVars, callVars, closeResult>>

\* The error io.Copy returns (line 134) for what the connection did during
\* the body read: nil when the body came whole, nil as well when the stream
\* ended early (Copy reads until EOF and does not report it), the read's
\* error otherwise.
CopyError(outcome) == outcome = "error"

\* The body read whose error path keeps the buffer out of the pool.
readLoopBodyNoPut(outcome, got) ==
    /\ pc["rl"] = "readBody"
    /\ ~connClosed
    /\ \/ outcome = "whole" /\ got = cur.len
       \/ outcome \in {"eof", "error"} /\ got < cur.len
    /\ connEOF' = (outcome = "eof")
    /\ pool' = Get(pool)
    /\ IF CopyError(outcome)
       THEN /\ rlCause' = "body"
            /\ cur' = NoFrame
            /\ pc' = [pc EXCEPT !["rl"] = "doClose"]
       ELSE /\ cur' = [cur EXCEPT !.got = got]
            /\ pc' = [pc EXCEPT !["rl"] = "deliver"]
            /\ UNCHANGED rlCause
    /\ UNCHANGED <<ctorVars, closeVars, arrived, inC, delivered, received,
                   writeVars, callVars, closeResult>>

\* readLoop (lines 131-139): takes a buffer and copies up to bodyLen bytes
\* of the connection into it; `got` bytes came before the connection did
\* `outcome`. On an error the buffer goes back to the pool and the Session
\* closes; else the loop goes on to deliver the buffer.
readLoopBody(outcome, got) ==
    /\ pc["rl"] = "readBody"
    /\ ~connClosed
    /\ \/ outcome = "whole" /\ got = cur.len
       \/ outcome \in {"eof", "error"} /\ got < cur.len
    /\ connEOF' = (outcome = "eof")
    /\ IF CopyError(outcome)
       THEN /\ pool' = Put(Get(pool), poolCap)
            /\ rlCause' = "body"
            /\ cur' = NoFrame
            /\ pc' = [pc EXCEPT !["rl"] = "doClose"]
       ELSE /\ pool' = Get(pool)
            /\ cur' = [cur EXCEPT !.got = got]
            /\ pc' = [pc EXCEPT !["rl"] = "deliver"]
            /\ UNCHANGED rlCause
    /\ UNCHANGED <<ctorVars, closeVars, arrived, inC, delivered, received,
                   writeVars, callVars, closeResult>>

\* readLoop (lines 131-139): the body read on a connection closed by
\* doClose returns an error.
readLoopBodyClosed ==
    /\ pc["rl"] = "readBody"
    /\ connClosed
    /\ pool' = Put(Get(pool), poolCap)
    /\ rlCause' = "body"
    /\ cur' = NoFrame
    /\ pc' = [pc EXCEPT !["rl"] = "doClose"]
    /\ UNCHANGED <<ctorVars, closeVars, connEOF, arrived, inC, delivered,
                   received, writeVars, callVars, closeResult>>

\* The switch with its two cases picking the same queue.
RouteYin(streamType) == streamTypeYin

\* The stream whose queue the reader loop picks for a tag (lines 141-147).
Route(streamType) ==
    IF streamType = streamTypeYin THEN streamTypeYin ELSE streamTypeYang

\* The loop going on to the next header without the send.
readLoopDeliverDropped ==
    /\ pc["rl"] = "deliver"
    /\ cur' = NoFrame
    /\ pc' = [pc EXCEPT !["rl"] = "readHeader"]
    /\ UNCHANGED <<ctorVars, closeVars, frameVars, writeVars, callVars, closeResult>>

\* The send that leaves the loop where it is, to send the buffer again.
readLoopDeliverAgain ==
    /\ pc["rl"] = "deliver"
    /\ Len(inC[Route(cur.tag)]) < InCCap
    /\ inC' = [inC EXCEPT ![Route(cur.tag)] =
                  Append(@, [id |-> cur.id, missing |-> cur.len - cur.got])]
    /\ delivered' = [delivered EXCEPT ![Route(cur.tag)] = Append(@, cur.id)]
    /\ UNCHANGED <<ctorVars, closeVars, connEOF, rlCause, arrived, received,
                   pool, writeVars, callVars, closeResult, cur, pc>>

\* readLoop (lines 148, 151): the send on the stream's queue is chosen. The
\* queue entry stands for the buffer: the frame it was filled for, and how
\* many bytes it holds less than the frame's header declared.
readLoopDeliver ==
    /\ pc["rl"] = "deliver"
    /\ Len(inC[Route(cur.tag)]) < InCCap
    /\ inC' = [inC EXCEPT ![Route(cur.tag)] =
                  Append(@, [id |-> cur.id, missing |-> cur.len - cur.got])]
    /\ delivered' = [delivered EXCEPT ![Route(cur.tag)] = Append(@, cur.id)]
    /\ cur' = NoFrame
    /\ pc' = [pc EXCEPT !["rl"] = "readHeader"]
    /\ UNCHANGED <<ctorVars, closeVars, connEOF, rlCause, arrived, received,
                   pool, writeVars, callVars, closeResult>>

\* The closed signal is chosen and the loop drops the body and goes on to
\* the next header.
readLoopDeliverClosedContinue ==
    /\ pc["rl"] = "deliver"
    /\ closedC
    /\ cur' = NoFrame
    /\ pc' = [pc EXCEPT !["rl"] = "readHeader"]
    /\ UNCHANGED <<ctorVars, closeVars, frameVars, writeVars, callVars, closeResult>>

\* readLoop (lines 148-150): the closed signal is chosen and the loop ends.
readLoopDeliverClosed ==
    /\ pc["rl"] = "deliver"
    /\ closedC
    /\ pc' = [pc EXCEPT !["rl"] = "done"]
    /\ UNCHANGED <<ctorVars, closeVars, readVars, writeVars, callVars, closeResult>>

\* --------------------------------------------------------------- writer
\* write without the write lock.
writeAcquireNoLock(w) ==
    /\ pc[w] = "writeLock"
    /\ pc' = [pc EXCEPT ![w] = "writeConn"]
    /\ UNCHANGED <<ctorVars, closeVars, readVars, writeVars, callVars,
                   closeResult>>

\* write (line 158): takes the write lock.
writeAcquire(w) ==
    /\ pc[w] = "writeLock"
    /\ writeLock = NoTask
    /\ writeLock' = w
    /\ pc' = [pc EXCEPT ![w] = "writeConn"]
    /\ UNCHANGED <<ctorVars, closeVars, readVars, wire, wprog, callVars,
                   closeResult>>

\* write (lines 161, 159, 165): conn.Write puts the next piece of the slice
\* on the connection. After the last piece it returns nil, and write
\* releases the write lock and returns nil: the caller's Call now waits for
\* its reply (or returns, when the call has failed meanwhile), the rpc
\* server goes back to serving.
writeConn(w) ==
    /\ pc[w] = "writeConn"
    /\ ~connClosed
    /\ wire' = Append(wire, [w |-> w, k |-> wprog[w] + 1, tag |-> StreamOf(w)])
    /\ IF wprog[w] + 1 < Cardinality(Pieces)
       THEN /\ wprog' = [wprog EXCEPT ![w] = @ + 1]
            /\ UNCHANGED <<pc, writeLock>>
       ELSE /\ wprog' = [wprog EXCEPT ![w] = 0]
            /\ writeLock' = IF writeLock = w THEN NoTask ELSE writeLock
            /\ pc' = [pc EXCEPT ![w] =
                        IF w = "server" THEN "recv"
                        ELSE IF callRes = "none" THEN "wait" ELSE "idle"]
    /\ UNCHANGED <<ctorVars, closeVars, readVars, callVars, closeResult>>

\* write whose failed conn.Write is not followed by doClose: it releases the
\* write lock and returns the error.
writeConnErrorNoClose(w) ==
    /\ pc[w] = "writeConn"
    /\ ~connClosed
    /\ doCloseReturn(w)
    /\ UNCHANGED <<ctorVars, closeVars, frameVars, wire, callAfterClose,
                   clientShutdown>>

\* write (lines 161-163): conn.Write fails on a connection the peer broke,
\* and write calls doClose.
writeConnError(w) ==
    /\ pc[w] = "writeConn"
    /\ ~connClosed
    /\ pc' = [pc EXCEPT ![w] = "doClose"]
    /\ UNCHANGED <<ctorVars, closeVars, readVars, writeVars, callVars, closeResult>>

\* write (lines 161-163): conn.Write fails on a connection doClose closed,
\* and write calls doClose.
writeConnClosed(w) ==
    /\ pc[w] = "writeConn"
    /\ connClosed
    /\ pc' = [pc EXCEPT ![w] = "doClose"]
    /\ UNCHANGED <<ctorVars, closeVars, readVars, writeVars, callVars, closeResult>>

\* ------------------------------------------------------------ rpc client
\* The caller's Call is registered with the rpc client and unanswered.
CallPending == pc["caller"] # "idle" /\ callRes = "none"

\* The requests the caller has put on the connection, whole or in part.
CallWrites ==
    Cardinality({i \in DOMAIN wire : wire[i].w = "caller" /\ wire[i].k = 1})

\* Call (lines 100-102): the rpc client refuses the call at once when it is
\* closing or shut down, and Call returns; else it registers the call and
\* writes the request through the client codec's stream.
Call ==
    /\ pc["caller"] = "idle"
    /\ callAfterClose' = (closeResult # "none")
    /\ IF clientClosing \/ clientShutdown
       THEN /\ callRes' = "shutdown"
            /\ UNCHANGED pc
       ELSE /\ CallWrites < MaxCallWrites
            /\ callRes' = "none"
            /\ pc' = [pc EXCEPT !["caller"] = "writeLock"]
    /\ UNCHANGED <<ctorVars, closeVars, readVars, writeVars, clientShutdown,
                   closeResult>>

\* The client codec's stream hands the rpc client's reply loop a body; a
\* reply completes the call that waits for it, and Call returns nil.
inputRecv ==
    /\ pc["input"] = "recv"
    /\ inC[StreamOf("input")] # <<>>
    /\ received' = [received EXCEPT !["input"] =
                       Append(@, Head(inC[StreamOf("input")]))]
    /\ inC' = [inC EXCEPT ![StreamOf("input")] = Tail(@)]
    /\ IF pc["caller"] = "wait"
       THEN /\ callRes' = "ok"
            /\ pc' = [pc EXCEPT !["caller"] = "idle"]
       ELSE UNCHANGED <<callRes, pc>>
    /\ UNCHANGED <<ctorVars, closeVars, connEOF, rlCause, cur, arrived,
                   delivered, pool, writeVars, callAfterClose, clientShutdown,
                   closeResult>>

\* The client codec's stream reports the Session closed: the reply loop
\* shuts the rpc client down and fails every pending call; a Call that
\* waits for its reply returns the error.
inputClosed ==
    /\ pc["input"] = "recv"
    /\ closedC
    /\ clientShutdown' = TRUE
    /\ callRes' = IF CallPending THEN "error" ELSE callRes
    /\ pc' = [pc EXCEPT !["input"] = "done",
                        !["caller"] = IF @ = "wait" THEN "idle" ELSE @]
    /\ UNCHANGED <<ctorVars, closeVars, readVars, writeVars, callAfterClose,
                   closeResult>>

\* ------------------------------------------------------------ rpc server
\* The server codec's stream hands the serve loop a request, which is
\* answered with one write on the server codec's stream.
serverRecv ==
    /\ pc["server"] = "recv"
    /\ inC[StreamOf("server")] # <<>>
    /\ received' = [received EXCEPT !["server"] =
                       Append(@, Head(inC[StreamOf("server")]))]
    /\ inC' = [inC EXCEPT ![StreamOf("server")] = Tail(@)]
    /\ pc' = [pc EXCEPT !["server"] = "writeLock"]
    /\ UNCHANGED <<ctorVars, closeVars, connEOF, rlCause, cur, arrived,
                   delivered, pool, writeVars, callVars, closeResult>>

\* The server codec's stream reports the Session closed: the serve loop ends.
serverClosed ==
    /\ pc["server"] = "recv"
    /\ closedC
    /\ pc' = [pc EXCEPT !["server"] = "done"]
    /\ UNCHANGED <<ctorVars, closeVars, readVars, writeVars, callVars, closeResult>>

\* ------------------------------------------------------- specification
\* The steps of a constructed Session's tasks, with a peer that sends at
\* most `frames` valid headers (and any number of invalid ones).
Steps(frames) ==
    \/ Close
    \/ \E t \in Closers : doCloseEnter(t)
    \/ \E t \in Closers : doCloseSignal(t)
    \/ \E t \in Closers : doCloseConn(t)
    \/ \E t \in Closers : doCloseClient(t)
    \/ \E streamType \in TagBytes, bodyLen \in 0..MaxBodyLen :
          /\ InvalidHeader(streamType, bodyLen) \/ Len(arrived) < frames
          /\ readLoopHeader(streamType, bodyLen)
    \/ readLoopHeaderError
    \/ readLoopHeaderClosed
    \/ \E outcome \in {"whole", "eof", "error"}, got \in 0..MaxBodyLen :
          readLoopBody(outcome, got)
    \/ readLoopBodyClosed
    \/ readLoopDeliver
    \/ readLoopDeliverClosed
    \/ \E w \in Writers : writeAcquire(w)
    \/ \E w \in Writers : writeConn(w)
    \/ \E w \in Writers : writeConnError(w)
    \/ \E w \in Writers : writeConnClosed(w)
    \/ Call
    \/ inputRecv
    \/ inputClosed
    \/ serverRecv
    \/ serverClosed

Run == Steps(MaxFrames)

Next ==
    \/ \E c \in Configs : NewSession(c[1], c[2])
    \/ Run

Spec == Init /\ [][Next]_vars

\* What the scheduling guarantees. A goroutine that can run does run; a
\* sync.Mutex is handed to every goroutine that waits for it; a select
\* with a ready case proceeds; a read or write on a closed connection
\* returns. Nothing makes the peer send or accept bytes, and nothing makes
\* the application call Close or Call.
Fairness ==
    /\ \A t \in Closers : SF_vars(doCloseEnter(t))
    /\ \A t \in Closers :
          WF_vars(doCloseSignal(t) \/ doCloseConn(t) \/ doCloseClient(t))
    /\ WF_vars(readLoopHeaderClosed \/ readLoopBodyClosed)
    /\ WF_vars(readLoopDeliver \/ readLoopDeliverClosed)
    /\ \A w \in Writers : SF_vars(writeAcquire(w))
    /\ \A w \in Writers : WF_vars(writeConnClosed(w))
    /\ WF_vars(inputRecv \/ inputClosed)
    /\ WF_vars(serverRecv \/ serverClosed)

\* The Session built with the default pool size and the role flag set, whose
\* peer sends at most MaxFairFrames whole headers (and any number of invalid
\* ones), under the scheduling's guarantees.
FairNext ==
    \/ NewSession(TRUE, 0)
    \/ Steps(MaxFairFrames)

FairSpec == Init /\ [][FairNext]_vars /\ Fairness

\* The steps of a Session whose application issues no Call and whose rpc
\* server never takes a request from its stream: the reader loop, the
\* closes, and the rpc client's reply loop.
ReaderSteps ==
    \/ Close
    \/ \E t \in {"rl", "closer"} : doCloseEnter(t)
    \/ \E t \in {"rl", "closer"} : doCloseSignal(t)
    \/ \E t \in {"rl", "closer"} : doCloseConn(t)
    \/ \E t \in {"rl", "closer"} : doCloseClient(t)
    \/ \E streamType \in TagBytes, bodyLen \in 0..MaxBodyLen :
          /\ InvalidHeader(streamType, bodyLen) \/ Len(arrived) < MaxFrames
          /\ readLoopHeader(streamType, bodyLen)
    \/ readLoopHeaderError
    \/ readLoopHeaderClosed
    \/ \E outcome \in {"whole", "eof", "error"}, got \in 0..MaxBodyLen :
          readLoopBody(outcome, got)
    \/ readLoopBodyClosed
    \/ readLoopDeliver
    \/ readLoopDeliverClosed
    \/ inputRecv
    \/ inputClosed
    \/ serverClosed

\* What the scheduling guarantees of those steps. Nothing makes the rpc
\* server take a request.
ReaderFairness ==
    /\ \A t \in {"rl", "closer"} : SF_vars(doCloseEnter(t))
    /\ \A t \in {"rl", "closer"} :
          WF_vars(doCloseSignal(t) \/ doCloseConn(t) \/ doCloseClient(t))
    /\ WF_vars(readLoopHeaderClosed \/ readLoopBodyClosed)
    /\ WF_vars(readLoopDeliver \/ readLoopDeliverClosed)
    /\ WF_vars(inputRecv \/ inputClosed)
    /\ WF_vars(serverClosed)

ReaderNext ==
    \/ NewSession(TRUE, 0)
    \/ ReaderSteps

ReaderSpec == Init /\ [][ReaderNext]_vars /\ ReaderFairness

\* ------------------------------------------------------------- claims
TeardownSteps == {"closedC", "conn", "client"}
InTeardown == {"closeC", "closeConn", "closeClient"}

\* C1: Close is idempotent under any interleaving. However many Close()
\* calls and internal closes there are, no teardown step (closing closedC,
\* closing the connection, closing the rpc client) runs twice; once a close
\* has run to its end, each step has run exactly once; and every Close()
\* call that has returned returned nil, with the teardown done.
C1_CloseOnce ==
    /\ \A st \in TeardownSteps : nTeardown[st] <= 1
    /\ (closed /\ closeLock = NoTask) => \A st \in TeardownSteps : nTeardown[st] = 1
    /\ closeResult \in {"none", "nil"}
    /\ closeResult = "nil" => \A st \in TeardownSteps : nTeardown[st] = 1

\* A Close() has returned and the reader loop has closed the Session too,
\* and a third close is under way.
C1_Witness ==
    /\ closeResult = "nil"
    /\ pc["rl"] = "done" /\ rlCause # "none"
    /\ \E w \in Writers : pc[w] = "doClose"
    /\ \A st \in TeardownSteps : nTeardown[st] = 1

\* C2: a Call issued after a Close() call has returned is refused with the
\* closed-session error and has returned (it neither waits nor succeeds),
\* whoever ran the teardown.
C2_CallAfterClose ==
    callAfterClose => (callRes = "shutdown" /\ pc["caller"] = "idle")

\* A Call was issued after a Close() returned, the teardown having been run
\* by the reader loop's close, and was refused.
C2_Witness ==
    /\ callAfterClose
    /\ callRes = "shutdown"
    /\ pc["rl"] = "done" /\ rlCause = "header"

\* The pieces on the wire: piece k > 1 of a slice directly follows piece
\* k - 1 of the same write call.
Contiguous ==
    \A i \in DOMAIN wire :
        wire[i].k > 1 =>
            /\ i > 1
            /\ wire[i - 1].w = wire[i].w
            /\ wire[i - 1].k = wire[i].k - 1

\* C5: frame isolation. At most one task is inside conn.Write at a time;
\* the pieces of one write call lie together on the wire, in order, with no
\* piece of another call between them; and only the last slice on the wire
\* can be incomplete (the write in progress, or one the connection failed).
C5_FrameIsolation ==
    /\ [](\A w, v \in Writers : (pc[w] = "writeConn" /\ pc[v] = "writeConn") => w = v)
    /\ []Contiguous
    /\ [](\A i \in DOMAIN wire :
            (wire[i].k < Cardinality(Pieces) /\ i < Len(wire)) =>
                (wire[i + 1].w = wire[i].w /\ wire[i + 1].k = wire[i].k + 1))

\* Both writers want the connection at once: one is inside conn.Write with
\* half its slice written, the other waits for the write lock, and a whole
\* slice of the other writer is on the wire already.
C5_Witness ==
    /\ \E w \in Writers :
          /\ pc[w] = "writeConn" /\ wprog[w] = 1
          /\ \E v \in Writers \ {w} :
                /\ pc[v] = "writeLock"
                /\ \E i \in DOMAIN wire : wire[i].w = v /\ wire[i].k = 2

\* The numbers of the frames read so far whose header carried tag g.
FramesOf(g) ==
    SelectSeq([n \in DOMAIN arrived |-> n], LAMBDA n : arrived[n] = g)

IsPrefix(a, b) == Len(a) <= Len(b) /\ \A i \in DOMAIN a : a[i] = b[i]

Ids(q) == [i \in DOMAIN q |-> q[i].id]

PeerCodecOn(g) == CodecOn(~yinOrYang, g)
OtherRole(r) == IF r = "client" THEN "server" ELSE "client"

\* C7: role assignment. With the flag set the client codec is on the yin
\* stream and the server codec on the yang stream, without it the other way
\* round; so with a peer of the opposite flag, what this Session's client
\* codec writes goes to the peer's server codec and what its server codec
\* writes to the peer's client codec, and every body a local codec takes
\* was written by the peer's codec of the other role.
C7_Roles ==
    constructed =>
        /\ StreamOf("caller") = IF yinOrYang THEN streamTypeYin ELSE streamTypeYang
        /\ StreamOf("server") = IF yinOrYang THEN streamTypeYang ELSE streamTypeYin
        /\ \A i \in DOMAIN wire :
              PeerCodecOn(wire[i].tag) = OtherRole(RoleOf(wire[i].w))
        /\ \A t \in Consumers : \A i \in DOMAIN received[t] :
              PeerCodecOn(arrived[received[t][i].id]) = OtherRole(RoleOf(t))

\* With the flag unset, both local codecs have taken a body from the peer
\* and both have written a whole slice to it.
C7_Witness ==
    /\ constructed /\ ~yinOrYang
    /\ \A t \in Consumers : received[t] # <<>>
    /\ \A w \in Writers : \E i \in DOMAIN wire : wire[i].w = w /\ wire[i].k = 2

AllOpen == ~closed /\ ~closedC /\ ~connClosed /\ ~clientClosing
AllClosed == closed /\ closedC /\ connClosed /\ clientClosing

\* C8 as stated: the fired signal, the closed connection and the closed rpc
\* client, which tasks read without the close lock, are all unset or all
\* set in every state.
C8_NoPartialClose ==
    \/ ~closedC /\ ~connClosed /\ ~clientClosing
    \/ closedC /\ connClosed /\ clientClosing

\* C8, amended: whenever no task holds the close lock, the closed flag, the
\* fired signal, the closed connection and the closed rpc client are all
\* unset or all set; and none of them, once set, is ever unset.
C8_ClosedOutsideTeardown ==
    /\ [](closeLock = NoTask => (AllOpen \/ AllClosed))
    /\ [][/\ closed => closed'
          /\ closedC => closedC'
          /\ connClosed => connClosed'
          /\ clientClosing => clientClosing']_vars

\* The teardown has run to its end and the close lock is free again, while
\* a writer is still inside conn.Write.
C8_Witness ==
    /\ AllClosed /\ closeLock = NoTask
    /\ \E w \in Writers : pc[w] = "writeConn"

\* C9: NewSession given bufferPoolSize <= 0 makes the pool with the default
\* capacity, and given bufferPoolSize > 0 with that capacity.
C9_PoolCapacity ==
    constructed =>
        /\ bufferPoolSize <= 0 => poolCap = defaultBufferPoolSize
        /\ bufferPoolSize > 0 => poolCap = bufferPoolSize

\* C10: every body handed to a stream holds exactly the bytes its header
\* declared.
C10_WholeBodies ==
    /\ \A g \in StreamTypes : \A i \in DOMAIN inC[g] : inC[g][i].missing = 0
    /\ \A t \in Consumers : \A i \in DOMAIN received[t] : received[t][i].missing = 0

InDoClose == {"doClose", "closeC", "closeConn", "closeClient"}

\* A step in which a Call is issued by the caller, whose last Call (if any)
\* has returned.
CallIssued == pc["caller"] = "idle" /\ (callRes' # callRes \/ pc'["caller"] # "idle")

\* A Call that is refused with the closed-session error and returns.
CallRefused == callRes' = "shutdown" /\ pc'["caller"] = "idle"

\* C3: when the reader loop's header read fails (the connection failed or
\* was closed), the Session gets closed and the reader loop ends; a Call
\* whose request is sent and whose reply has not arrived returns an error;
\* and a Call issued after that is refused with the closed-session error.
C3_ConnFailure ==
    /\ (rlCause = "header") ~> (pc["rl"] = "done" /\ AllClosed)
    /\ (rlCause = "header" /\ pc["caller"] = "wait" /\ inC[StreamOf("input")] = <<>>)
          ~> (callRes = "error" /\ pc["caller"] = "idle")
    /\ [][(rlCause = "header" /\ pc["rl"] = "done" /\ CallIssued) => CallRefused]_vars

\* The header read failed while a Call whose request was wholly on the wire
\* waited for a reply that never came, and the Call has returned an error.
C3_Witness ==
    /\ rlCause = "header" /\ pc["rl"] = "done"
    /\ callRes = "error" /\ pc["caller"] = "idle"
    /\ \E i \in DOMAIN wire : wire[i].w = "caller" /\ wire[i].k = 2
    /\ received["input"] = <<>> /\ inC[StreamOf("input")] = <<>>

\* The reader loop has decoded a header with a tag other than 1 and 2 or
\* with a length <= 0.
BadHeaderRead == cur.id > 0 /\ (cur.tag \notin {1, 2} \/ cur.len <= 0)

CloseState == <<closed, closedC, connClosed, clientClosing>>

\* C11: a conn.Write that fails inside write is followed by doClose, during
\* which the writer keeps the write lock; when write returns after that,
\* the Session is closed (flag set, signal fired, connection and rpc client
\* closed), the write lock is released, and the caller's Call has got the
\* error; and a conn.Write that puts bytes on the connection changes none
\* of the four.
C11_WriteError ==
    /\ [](\A w \in Writers : pc[w] \in InDoClose => writeLock = w)
    /\ [][\A w \in Writers :
            /\ (pc[w] = "writeConn" /\ pc'[w] # "writeConn" /\ wire' = wire)
                  => pc'[w] = "doClose"
            /\ (pc[w] \in InDoClose /\ pc'[w] \notin InDoClose)
                  => /\ AllClosed'
                     /\ writeLock' = NoTask
                     /\ w = "caller" => (callRes' = "error" /\ pc'[w] = "idle")
            /\ (pc[w] = "writeConn" /\ wire' # wire)
                  => CloseState' = CloseState]_vars

\* The caller's write failed with half its slice on the connection, no
\* Close() having returned and the reader loop having met no error; the
\* write has returned, the Session is closed, the write lock is free and
\* the Call has returned the error.
C11_Witness ==
    /\ pc["caller"] = "idle" /\ callRes = "error"
    /\ \E i \in DOMAIN wire : wire[i].w = "caller" /\ wire[i].k = 1
    /\ ~\E i \in DOMAIN wire : wire[i].w = "caller" /\ wire[i].k = 2
    /\ nTeardown["conn"] = 1 /\ rlCause = "none" /\ closeResult = "none"
    /\ AllClosed /\ writeLock = NoTask

\* C12: once the Session is closed (flag set, signal fired, connection and
\* rpc client closed), the reader loop puts no body on either stream's
\* queue: at the delivery step it abandons the body (here: one it has read
\* whole) and ends.
C12_NoDeliveryAfterClose ==
    [][(AllClosed /\ cur.got = cur.len) =>
          /\ delivered' = delivered
          /\ (pc["rl"] = "deliver" /\ pc'["rl"] # "deliver") => pc'["rl"] = "done"]_vars

\* The reader loop has seen the close: a read has failed or the select has
\* taken the closed signal.
ReaderLeaving == pc["rl"] \in InDoClose \cup {"done"}

\* C13: once the Session is closed the reader loop ends, wherever it is
\* (reading a header, reading a body, or waiting to deliver to a stream
\* whose consumer never receives); a select that takes the closed signal
\* ends the loop; and a loop that has seen the close starts no other cycle.
C13_ReaderTerminates ==
    /\ AllClosed ~> (pc["rl"] = "done")
    /\ [][(pc["rl"] = "deliver" /\ pc'["rl"] # "deliver" /\ delivered' = delivered)
             => pc'["rl"] = "done"]_vars
    /\ [][ReaderLeaving => ReaderLeaving']_vars

\* The Session is closed and the reader loop has ended at its select, with
\* a body for the rpc server's stream that the full queue could not take.
C13_Witness ==
    /\ AllClosed /\ pc["rl"] = "done"
    /\ cur.id > 0 /\ Route(cur.tag) = StreamOf("server")
    /\ Len(inC[StreamOf("server")]) = InCCap

\* C14: routing by tag. Every body the reader loop has enqueued lies on
\* the queue of the stream whose tag its frame's header carried (tag 1 on
\* yin's, tag 2 on yang's), was enqueued once, and on no other queue.
C14_Routing ==
    /\ [](\A g \in StreamTypes : \A i \in DOMAIN delivered[g] :
            /\ arrived[delivered[g][i]] = g
            /\ \A h \in StreamTypes : \A j \in DOMAIN delivered[h] :
                  delivered[h][j] = delivered[g][i] => (h = g /\ j = i))
    /\ [](\A g \in StreamTypes : \A i \in DOMAIN inC[g] : arrived[inC[g][i].id] = g)

\* A frame with tag 2 and then a frame with tag 1 have come and both have
\* been enqueued.
C14_Witness ==
    /\ arrived = <<streamTypeYang, streamTypeYin>>
    /\ delivered[streamTypeYang] = <<1>>
    /\ delivered[streamTypeYin] = <<2>>

\* What has been read from the connection.
ConnRead == <<arrived, connEOF>>

\* C15: NewSession (given a pool size that is not negative) returns in one
\* step that reads nothing from the connection and writes nothing to it,
\* with the reader loop at its first header read and the rpc server's and
\* the rpc client's loops at their first receive; and whatever is read from
\* the connection afterwards is read in a step of the one reader loop.
C15_Construction ==
    /\ [][(~constructed /\ constructed' /\ poolCap' >= 0) =>
            /\ pc'["rl"] = "readHeader"
            /\ pc'["server"] = "recv" /\ pc'["input"] = "recv"
            /\ ConnRead' = <<<<>>, FALSE>> /\ cur' = NoFrame
            /\ wire' = <<>>]_vars
    /\ [][ConnRead' # ConnRead =>
            (pc["rl"] \in {"readHeader", "readBody"} /\ pc'["rl"] # pc["rl"])]_vars

\* The Session is built and in use (the caller is inside conn.Write) while
\* the connection has delivered no byte and has accepted none.
C15_Witness ==
    /\ constructed /\ ~closed
    /\ arrived = <<>> /\ cur = NoFrame /\ wire = <<>>
    /\ pc["rl"] = "readHeader" /\ pc["server"] = "recv"
    /\ pc["caller"] = "writeConn"

\* How the two locks are taken: a task that asks for a lock does not hold
\* it; a task that asks for the write lock holds no lock; the holder of the
\* close lock is in the teardown, which asks for no lock.
LockOrder ==
    /\ \A t \in Closers : pc[t] = "doClose" => closeLock # t
    /\ \A w \in Writers : pc[w] = "writeLock" => (writeLock # w /\ closeLock # w)
    /\ \A t \in Closers : closeLock = t => pc[t] \in InTeardown

\* C16 as stated: the locks are taken in that order, and every task that
\* asks for the close lock or for the write lock gets it.
C16_EveryLockObtained ==
    /\ []LockOrder
    /\ \A t \in Closers : (pc[t] = "doClose") ~> (pc[t] # "doClose")
    /\ \A w \in Writers : (pc[w] = "writeLock") ~> (pc[w] # "writeLock")

\* C16, amended: the locks are taken in that order; every task that asks
\* for the close lock gets it; and a task that asks for the write lock gets
\* it once the connection is closed (a holder whose conn.Write the peer
\* never takes keeps the write lock until then).
C16_LocksProgress ==
    /\ []LockOrder
    /\ \A t \in Closers : (pc[t] = "doClose") ~> (pc[t] # "doClose")
    /\ \A w \in Writers : (pc[w] = "writeLock" /\ connClosed) ~> (pc[w] # "writeLock")

\* A Close() has returned nil while one writer, inside conn.Write since
\* before the close, holds the write lock and the other waits for it.
C16_Witness ==
    /\ closeResult = "nil" /\ AllClosed /\ closeLock = NoTask
    /\ \E w \in Writers :
          /\ pc[w] = "writeConn" /\ writeLock = w
          /\ \E v \in Writers \ {w} : pc[v] = "writeLock"

\* Frame n has been taken by consumer t.
Taken(t, n) == \E i \in DOMAIN received[t] : received[t][i].id = n

HoldsBuffer == pc["rl"] \in {"readBody", "deliver"}

\* The step puts the iteration's buffer into the pool: the pool holds one
\* buffer more than the iteration's Get left in it.
BufferPut ==
    pool' # (IF pc["rl"] = "readBody" THEN Get(pool) ELSE pool)

\* The streams on whose queue the step puts a buffer.
BufferSent ==
    {g \in StreamTypes : delivered'[g] = Append(delivered[g], cur.id)}

\* C18 as stated: on every way out of an iteration of the reader loop that
\* took a buffer, the buffer is either put on the queue of exactly one
\* stream or put back into the pool, never both and never neither.
C18_BufferConservation ==
    [][(HoldsBuffer /\ ~HoldsBuffer') =>
           \/ BufferPut /\ BufferSent = {}
           \/ ~BufferPut /\ Cardinality(BufferSent) = 1]_vars

\* C18, amended: the same, except on the way out taken when the closed
\* signal is chosen during delivery, where the loop ends and the buffer is
\* neither put on a queue nor put back into the pool.
C18_BufferFate ==
    [][(HoldsBuffer /\ ~HoldsBuffer') =>
           \/ BufferPut /\ BufferSent = {}
           \/ ~BufferPut /\ Cardinality(BufferSent) = 1
           \/ /\ pc["rl"] = "deliver" /\ closedC /\ pc'["rl"] = "done"
              /\ ~BufferPut /\ BufferSent = {}]_vars

\* The reader loop has ended on the closed signal with the buffer of a
\* frame for the rpc client in hand: the frame is on no queue and the pool
\* is empty.
C18_Witness ==
    /\ pc["rl"] = "done"
    /\ cur.id > 0
    /\ Route(cur.tag) = StreamOf("input")
    /\ pool = 0
    /\ \A g \in StreamTypes : \A i \in DOMAIN delivered[g] : delivered[g][i] # cur.id

=============================================================================
